---- MODULE Spec2Model ----
(***************************************************************************)
(* Relationship and mentorship subsystems of the alumni backend: the      *)
(* connection_requests, connections, mentors, mentorship_requests and     *)
(* notifications tables, the is_mentor flag of users, and the route       *)
(* handlers that read and write them (routes/connections, routes/mentors, *)
(* routes/users), run by concurrent request handlers against PostgreSQL   *)
(* at its default isolation level (READ COMMITTED).  Every await of a     *)
(* handler is one step.                                                    *)
(***************************************************************************)
EXTENDS Integers, FiniteSets, Sequences, TLC

\* ------------------------------------------------------------------ bounds
\* Number of HTTP requests dispatched in one behaviour.
MaxOps == 4
\* The statements of a callback handed to the transaction helper.
MaxStatements == 2

\* Rows of the users table (all is_active = true), and an id with no row.
Users == {"u1", "u2", "u3"}
NoUser == "ghost"
\* A request body without to_user_id.
Missing == ""
\* Concurrent request handlers (async handlers in flight at the same time).
Procs == {"w1", "w2"}
\* A request id that matches no row.
UnknownId == 0
\* ?limit= of GET /suggestions: its default, and a smaller one.
DefaultLimit == 10
Limits == {1, DefaultLimit}

\* Accounts that sign in besides the alumni: a university admin and the
\* superadmin, who belongs to no university.
Admin == "dean"
SuperAdmin == "root"
Accounts == Users \cup {Admin, SuperAdmin}
Null == "null"

\* The universities and the users rows the seed inserts.
Universities == {"mit", "stanford"}
SeedUsers ==
    [a \in Accounts |->
        [university_id |-> IF a = SuperAdmin THEN Null
                           ELSE IF a = "u3" THEN "stanford" ELSE "mit",
         role |-> IF a = SuperAdmin THEN "superadmin"
                  ELSE IF a = Admin THEN "admin" ELSE "alumni",
         is_active |-> TRUE]]

\* mentors.id of the profile of each user (uuid_generate_v4(): one id per row,
\* and user_id is UNIQUE), and a mentor id that matches no row.
ProfileId == [u \in Users |-> IF u = "u1" THEN "m1" ELSE IF u = "u2" THEN "m2" ELSE "m3"]
UnknownMentor == "m0"

\* No request at a middleware, no transaction helper call.
NoGate == [pc |-> "none"]
NoTx == [pc |-> "none"]

VARIABLES
    connection_requests,  \* table connection_requests: [id, from_user_id, to_user_id, status]
    connections,          \* table connections: [id, user_id, connected_user_id]
    notifications,        \* table notifications, as a count per <<user_id, type>>
    proc,                 \* per handler: position, inputs, locals
    response,             \* the response this step wrote, if it wrote one
    ops,                  \* number of requests dispatched so far
    sendOk,               \* ids of the requests whose sendRequest answered success
    rejectOk,             \* ids of the requests whose rejectRequest answered success
    acceptOk,             \* <<id, k>>: the k-th acceptRequest on id that answered success
    is_mentor,            \* column users.is_mentor, per user
    mentors,              \* table mentors: [id, user_id, is_active, mentees_count]
    mentorship_requests,  \* table mentorship_requests: [id, mentor_id, mentee_id, status]
    mentorshipOk,         \* <<id, k>>: the k-th acceptMentorship on id that answered success
    users,                \* table users, by id: [university_id, role, is_active]
    universities,         \* table universities, by id: [is_enabled]
    gate,                 \* a request at one of the role / tenant middlewares
    tx                    \* a call of the transaction helper

vars == <<connection_requests, connections, notifications, proc, response, ops,
          sendOk, rejectOk, acceptOk,
          is_mentor, mentors, mentorship_requests, mentorshipOk,
          users, universities, gate, tx>>

\* What no relationship or mentorship route writes.
identity == <<users, universities, gate, tx>>

\* What the connections routes leave alone, and what the mentorship routes do.
mentorship == <<is_mentor, mentors, mentorship_requests, mentorshipOk>>
social == <<connection_requests, connections, sendOk, rejectOk, acceptOk>>

db == <<connection_requests, connections, notifications>>
hist == <<sendOk, rejectOk, acceptOk>>

NotifTypes == {"connection_request", "connection_accepted"}

NoRow == [id |-> UnknownId, from_user_id |-> NoUser, to_user_id |-> NoUser, status |-> "none"]
NoRes == [code |-> 0, detail |-> "", is_connected |-> FALSE, request_status |-> ""]
NoPre == [pending |-> FALSE, rejected |-> FALSE, connected |-> FALSE, actionable |-> FALSE]
\* The same for a mentorship route.
NoMentorPre == [exists |-> FALSE, active |-> FALSE, own |-> FALSE, actionable |-> FALSE]

\* res.status(code).json({detail}) and res.json({message, success: true})
Reply(code, detail) ==
    [code |-> code, detail |-> detail, is_connected |-> FALSE, request_status |-> ""]

\* res.json({is_connected, request_status?}) of GET /check/:userId
CheckReply(connected, status) ==
    [code |-> 200, detail |-> "", is_connected |-> connected, request_status |-> status]

\* res.json({connections, total}) and res.json({mentors, total}): the user ids
\* of the rows returned
ListReply(rows) == [code |-> 200, detail |-> "", rows |-> rows]

Idle ==
    [pc |-> "idle", op |-> "none", actor |-> NoUser, arg |-> Missing, rid |-> UnknownId,
     req_ |-> NoRow, connId |-> 0, pre |-> NoPre]

\* A response on the wire, tagged with the request it answers (route, caller,
\* parameter) and with what the tables held when its handler started.
Answer(rq, pre, res) ==
    [op |-> rq.op, actor |-> rq.actor, arg |-> rq.arg, rid |-> rq.rid,
     pre |-> pre, res |-> res]
Request(op, actor, arg, rid) == [op |-> op, actor |-> actor, arg |-> arg, rid |-> rid]
NoAnswer == Answer(Request("none", NoUser, Missing, UnknownId), NoPre, NoRes)

\* ----------------------------------------------------------- SQL predicates
\* WHERE (user_id = $1 AND connected_user_id = $2) OR (user_id = $2 AND connected_user_id = $1)
PairRows(conns, a, b) ==
    {c \in conns : \/ (c.user_id = a /\ c.connected_user_id = b)
                   \/ (c.user_id = b /\ c.connected_user_id = a)}

\* WHERE (from_user_id = $1 AND to_user_id = $2) OR (from_user_id = $2 AND to_user_id = $1)
PairRequests(reqs, a, b) ==
    {r \in reqs : \/ (r.from_user_id = a /\ r.to_user_id = b)
                  \/ (r.from_user_id = b /\ r.to_user_id = a)}

\* "Check if already connected" of POST /request
ExistingConnection(conns, a, b) == PairRows(conns, a, b)

\* (a lookup of the live requests only: accepted and rejected rows skipped)
PendingRequestsOnly(reqs, a, b) ==
    {r \in PairRequests(reqs, a, b) : r.status = "pending"}

\* (a lookup of the caller's own requests only: the reverse direction dropped)
OneWayRequests(reqs, a, b) ==
    {r \in reqs : r.from_user_id = a /\ r.to_user_id = b}

\* "Check if request already exists" of POST /request: every status is scanned
ExistingRequest(reqs, a, b) == PairRequests(reqs, a, b)

\* (the SELECT without its to_user_id = $2 condition)
AnyonesPending(reqs, id, actor) ==
    {r \in reqs : r.id = id /\ r.status = "pending"}

\* SELECT * FROM connection_requests WHERE id = $1 AND to_user_id = $2 AND status = 'pending'
PendingFor(reqs, id, actor) ==
    {r \in reqs : r.id = id /\ r.to_user_id = actor /\ r.status = "pending"}

\* UPDATE ... WHERE id = $2 AND to_user_id = $3 AND status = 'pending' RETURNING id
RejectMatch(reqs, id, actor) ==
    {r \in reqs : r.id = id /\ r.to_user_id = actor /\ r.status = "pending"}

\* (the DELETE with only the first half of its WHERE)
DeleteOneWay(conns, a, b) ==
    {c \in conns : c.user_id = a /\ c.connected_user_id = b}

\* DELETE FROM connections WHERE (user_id = $1 AND connected_user_id = $2) OR (...)
DeleteMatch(conns, a, b) == PairRows(conns, a, b)

\* the two SELECTs of GET /check/:userId
CheckConnection(conns, a, b) == PairRows(conns, a, b)
CheckRequest(reqs, a, b) == PairRequests(reqs, a, b)

\* GET /check/:userId answered from one state of the tables: the replies it can give
CheckStatusReplies(conns, reqs, a, b) ==
    IF CheckConnection(conns, a, b) # {}
    THEN {CheckReply(TRUE, "")}
    ELSE IF CheckRequest(reqs, a, b) # {}
    THEN {CheckReply(FALSE, r.status) : r \in CheckRequest(reqs, a, b)}
    ELSE {CheckReply(FALSE, "")}

\* The users the caller is connected with, in either direction, and the users
\* the caller has a pending request to (the two NOT IN subqueries of GET /suggestions)
ConnectedWith(conns, actor) ==
    {c.connected_user_id : c \in {x \in conns : x.user_id = actor}} \cup
    {c.user_id : c \in {x \in conns : x.connected_user_id = actor}}
PendingTo(reqs, actor) ==
    {r.to_user_id : r \in {x \in reqs : x.from_user_id = actor /\ x.status = "pending"}}

\* (the query without its second NOT IN)
SuggestionsDespiteRequests(conns, reqs, actor) ==
    {u \in Accounts :
        /\ u # actor
        /\ users[u].is_active
        /\ users[u].role = "alumni"
        /\ users[actor].university_id # Null
        /\ users[u].university_id = users[actor].university_id
        /\ u \notin ConnectedWith(conns, actor)}

\* GET /suggestions: the rows its WHERE clause keeps.  A comparison with a NULL
\* university_id is not true.
SuggestionMatches(conns, reqs, actor) ==
    {u \in Accounts :
        /\ u # actor
        /\ users[u].is_active
        /\ users[u].role = "alumni"
        /\ users[actor].university_id # Null
        /\ users[u].university_id = users[actor].university_id
        /\ u \notin ConnectedWith(conns, actor)
        /\ u \notin PendingTo(reqs, actor)}

\* ORDER BY RANDOM() LIMIT n: any n of the rows, or all of them if fewer
Limited(rows, n) ==
    {S \in SUBSET rows :
        Cardinality(S) = IF Cardinality(rows) < n THEN Cardinality(rows) ELSE n}

\* "Check if already requested" of POST /:mentorId/request: any status counts
ExistingMentorship(reqs, mentorId, mentee) ==
    {r \in reqs : r.mentor_id = mentorId /\ r.mentee_id = mentee}

\* "Check if mentor exists": SELECT user_id FROM mentors WHERE id = $1 AND is_active = true
ActiveMentor(ms, mentorId) ==
    {m \in ms : m.id = mentorId /\ m.is_active}

\* (the table without its UNIQUE constraint)
NoMentorshipKey(reqs, mentorId, mentee) == FALSE

\* UNIQUE(mentor_id, mentee_id) of mentorship_requests
MentorshipKeyTaken(reqs, mentorId, mentee) ==
    \E r \in reqs : r.mentor_id = mentorId /\ r.mentee_id = mentee

\* accept: SELECT mr.*, m.user_id as mentor_user_id FROM mentorship_requests mr
\* JOIN mentors m ON mr.mentor_id = m.id WHERE mr.id = $1 AND mr.status = 'pending'
PendingMentorship(reqs, ms, id) ==
    {[id |-> r.id, mentor_id |-> r.mentor_id, mentee_id |-> r.mentee_id,
      status |-> r.status, mentor_user_id |-> m.user_id] :
        <<r, m>> \in {x \in reqs \X ms :
                         /\ x[1].mentor_id = x[2].id
                         /\ x[1].id = id
                         /\ x[1].status = "pending"}}

\* (the SELECT without its m.user_id = $2 condition)
AnyPendingMentorship(reqs, ms, id, actor) ==
    {r \in reqs : r.id = id /\ r.status = "pending"}

\* reject: SELECT mr.* ... JOIN mentors m ON mr.mentor_id = m.id
\* WHERE mr.id = $1 AND m.user_id = $2 AND mr.status = 'pending'
OwnPendingMentorship(reqs, ms, id, actor) ==
    {r \in reqs :
        /\ r.id = id
        /\ r.status = "pending"
        /\ \E m \in ms : m.id = r.mentor_id /\ m.user_id = actor}

\* (the upsert as a replacement of the row by a new one)
ReplaceProfile(ms, user) ==
    {m \in ms : m.user_id # user} \cup
    {[id |-> ProfileId[user], user_id |-> user, is_active |-> TRUE, mentees_count |-> 0]}

\* INSERT INTO mentors (user_id, is_active) VALUES ($1, true)
\* ON CONFLICT (user_id) DO UPDATE SET is_active = true
ActivateProfile(ms, user) ==
    IF \E m \in ms : m.user_id = user
    THEN {IF m.user_id = user THEN [m EXCEPT !.is_active = TRUE] ELSE m : m \in ms}
    ELSE ms \cup {[id |-> ProfileId[user], user_id |-> user, is_active |-> TRUE,
                   mentees_count |-> 0]}

\* UPDATE mentors SET is_active = false WHERE user_id = $1
DeactivateProfile(ms, user) ==
    {IF m.user_id = user THEN [m EXCEPT !.is_active = FALSE] ELSE m : m \in ms}

\* (the query without its university condition)
MentorsOfAnyTenant(ms, flags, university) ==
    {m \in ms : m.is_active /\ flags[m.user_id] /\ users[m.user_id].is_active}

\* GET /mentors with no optional filter: m.is_active AND u.is_mentor AND
\* u.is_active, and u.university_id = req.user.university_id when the caller
\* has one
MentorMatches(ms, flags, university) ==
    {m \in ms :
        /\ m.is_active
        /\ flags[m.user_id]
        /\ users[m.user_id].is_active
        /\ university # Null => users[m.user_id].university_id = university}

\* UNIQUE(from_user_id, to_user_id) of connection_requests
RequestKeyTaken(reqs, from, to) ==
    \E r \in reqs : r.from_user_id = from /\ r.to_user_id = to

\* UNIQUE(user_id, connected_user_id) of connections
ConnectionKeyTaken(conns, u, v) ==
    \E c \in conns : c.user_id = u /\ c.connected_user_id = v

\* REFERENCES users(id) of from_user_id / to_user_id
ForeignKeyOk(u) == u \in Users

\* (authenticate looking the user up by id alone)
AnyUsersRow(actor) == actor \in DOMAIN users

\* authenticate: SELECT * FROM users WHERE id = $1 AND is_active = true
Authenticated(actor) == actor \in DOMAIN users /\ users[actor].is_active

\* --------------------------------------------------------- transactions
\* A transaction holds the row lock of the request it has UPDATEd until it
\* commits or rolls back.
HoldsLock(p) == proc[p].pc \in {"acc_insert", "acc_notify", "acc_commit"}
Locked(id, p) == \E q \in Procs \ {p} : HoldsLock(q) /\ proc[q].rid = id

\* An uncommitted INSERT INTO connections of another transaction
PendingInsert(u, v, p) ==
    \E q \in Procs \ {p} :
        /\ proc[q].pc \in {"acc_notify", "acc_commit"}
        /\ proc[q].req_.from_user_id = u
        /\ proc[q].req_.to_user_id = v

\* The accept transaction holds the lock of the mentorship_requests row it has
\* UPDATEd, and then of the mentors row, until it commits.
MentorshipLocked(id, p) ==
    \E q \in Procs \ {p} :
        /\ proc[q].pc \in {"macc_count", "macc_notify", "macc_commit"}
        /\ proc[q].rid = id
MentorLocked(mentorId, p) ==
    \E q \in Procs \ {p} :
        /\ proc[q].pc \in {"macc_notify", "macc_commit"}
        /\ proc[q].req_.mentor_id = mentorId

\* uuidv4(): an id no row carries
FreshMentorshipId == Cardinality(mentorship_requests) + 1
FreshRequestId == Cardinality(connection_requests) + 1
UsedConnIds == {c.id : c \in connections} \cup {proc[q].connId : q \in Procs}
FreshConnId == CHOOSE i \in 1..(Cardinality(UsedConnIds) + 1) : i \notin UsedConnIds

\* The number of notifications rows of a type a user has: a pair outside the
\* domain has none.
Notified(n, user, type) ==
    IF <<user, type>> \in DOMAIN n THEN n[<<user, type>>] ELSE 0

\* INSERT INTO notifications (user_id, type, ...)
Notify(n, user, type) ==
    [k \in DOMAIN n \cup {<<user, type>>} |->
        IF k = <<user, type>> THEN Notified(n, user, type) + 1 ELSE n[k]]

Finish(p, rq, pre, res) ==
    /\ proc' = [proc EXCEPT ![p] = Idle]
    /\ response' = Answer(rq, pre, res)
Done(p, res) == Finish(p, proc[p], proc[p].pre, res)
Continue(p, rec) ==
    /\ proc' = [proc EXCEPT ![p] = rec]
    /\ response' = NoAnswer
Goto(p, pc) == Continue(p, [proc[p] EXCEPT !.pc = pc])

\* ------------------------------------------------------------ handlers
\* What the committed tables held between the caller and the other user when
\* the handler started (history, read by no handler).
Snapshot(actor, other) ==
    [pending   |-> \E r \in PairRequests(connection_requests, actor, other) :
                       r.status = "pending" /\ r.id \in sendOk,
     rejected  |-> \E r \in PairRequests(connection_requests, actor, other) :
                       r.id \in rejectOk,
     connected |-> PairRows(connections, actor, other) # {},
     actionable |-> FALSE]

\* Whether the request id named a pending request addressed to the caller when
\* the handler started (history, read by no handler).
SnapshotRequest(actor, id) ==
    [NoPre EXCEPT !.actionable =
        \E r \in connection_requests :
            r.id = id /\ r.to_user_id = actor /\ r.status = "pending"]

\* A handler resumes at its next statement once the response of the previous
\* step has left.
At(p, pc) ==
    /\ response = NoAnswer
    /\ proc[p].pc = pc

\* A new request is taken by an idle handler.  Handlers are interchangeable,
\* so the request goes to w1 whenever w1 is idle.
Free(p) ==
    /\ response = NoAnswer
    /\ proc[p].pc = "idle"
    /\ p # "w1" => proc["w1"].pc # "idle"
    /\ ops < MaxOps

\* router.<verb>(path, authenticate, handler): authenticate lets the request
\* through with req.userId = actor.
Accepts(p, actor) ==
    /\ ops' = ops + 1
    /\ Authenticated(actor)

Started(op, actor, arg, rid, pc) ==
    [pc |-> pc, op |-> op, actor |-> actor, arg |-> arg, rid |-> rid,
     req_ |-> NoRow, connId |-> 0, pre |-> Snapshot(actor, arg)]

\* authenticate: no active users row for the token's userId
Unauthenticated(p) ==
    /\ Free(p)
    /\ ops' = ops + 1
    /\ \E a \in DOMAIN users \cup {NoUser} :
           /\ ~Authenticated(a)
           /\ Finish(p, Request("none", a, Missing, UnknownId), NoPre,
                     Reply(401, "User not found or inactive"))
    /\ UNCHANGED <<db, hist>>
    /\ UNCHANGED <<mentorship, identity>>

\* POST /request: validation and the "already connected" query
SendRequest(p) ==
    /\ Free(p)
    /\ \E a \in Users, b \in Users \cup {NoUser, Missing} :
        /\ Accepts(p, a)
        /\ LET rq == Request("send", a, b, UnknownId)
           IN  IF b = Missing
               THEN Finish(p, rq, NoPre, Reply(400, "Target user ID is required"))
               ELSE IF b = a
               THEN Finish(p, rq, NoPre, Reply(400, "Cannot connect to yourself"))
               ELSE IF ExistingConnection(connections, a, b) # {}
               THEN Finish(p, rq, Snapshot(a, b), Reply(400, "Already connected"))
               ELSE Continue(p, Started("send", a, b, UnknownId, "send_req"))
        /\ UNCHANGED <<db, hist>>
    /\ UNCHANGED <<mentorship, identity>>

\* POST /request: the "request already exists" query
SendCheckRequest(p) ==
    LET a == proc[p].actor
        b == proc[p].arg
    IN  /\ At(p, "send_req")
        /\ IF ExistingRequest(connection_requests, a, b) # {}
           THEN Done(p, Reply(400, "Request already exists"))
           ELSE Goto(p, "send_insert")
        /\ UNCHANGED <<db, ops, hist>>
        /\ UNCHANGED <<mentorship, identity>>

\* POST /request: INSERT INTO connection_requests; a constraint violation
\* throws into the handler's catch (500)
SendInsert(p) ==
    LET a == proc[p].actor
        b == proc[p].arg
    IN  /\ At(p, "send_insert")
        /\ IF RequestKeyTaken(connection_requests, a, b) \/ ~ForeignKeyOk(b)
           THEN /\ Done(p, Reply(500, "Failed to send request"))
                /\ UNCHANGED connection_requests
           ELSE /\ connection_requests' = connection_requests \cup
                       {[id |-> FreshRequestId, from_user_id |-> a,
                         to_user_id |-> b, status |-> "pending"]}
                /\ Continue(p, [proc[p] EXCEPT !.pc = "send_notify", !.rid = FreshRequestId])
        /\ UNCHANGED <<connections, notifications, ops, hist>>
        /\ UNCHANGED <<mentorship, identity>>

\* POST /request: INSERT INTO notifications ... for the target user, then 200
SendNotify(p) ==
    /\ At(p, "send_notify")
    /\ notifications' = Notify(notifications, proc[p].arg, "connection_request")
    /\ Done(p, Reply(200, "Connection request sent"))
    /\ sendOk' = sendOk \cup {proc[p].rid}
    /\ UNCHANGED <<connection_requests, connections, ops, rejectOk, acceptOk>>
    /\ UNCHANGED <<mentorship, identity>>

\* transaction(): ROLLBACK, rethrow; the handler's catch answers 400 with
\* error.message.  The row lock and the uncommitted writes go with the rollback.
Rollback(p, message) == Done(p, Reply(400, message))

\* PUT /requests/:requestId/accept: BEGIN and the SELECT of the pending request
AcceptRequest(p) ==
    /\ Free(p)
    /\ \E a \in Users, id \in {r.id : r \in connection_requests} \cup {UnknownId} :
        LET rows == PendingFor(connection_requests, id, a)
        IN  /\ Accepts(p, a)
            /\ IF rows = {}
               THEN Finish(p, Request("accept", a, Missing, id), SnapshotRequest(a, id),
                           Reply(400, "Request not found or already processed"))
               ELSE \E r \in rows :
                        Continue(p, [pc |-> "acc_update", op |-> "accept", actor |-> a,
                                     arg |-> Missing, rid |-> id, req_ |-> r,
                                     connId |-> 0, pre |-> SnapshotRequest(a, id)])
            /\ UNCHANGED <<db, hist>>
    /\ UNCHANGED <<mentorship, identity>>

\* accept: UPDATE connection_requests SET status = 'accepted' WHERE id = $2.
\* It waits while another transaction holds the row's lock, then takes it.
AcceptUpdate(p) ==
    /\ At(p, "acc_update")
    /\ ~Locked(proc[p].rid, p)
    /\ Goto(p, "acc_insert")
    /\ UNCHANGED <<db, ops, hist>>
    /\ UNCHANGED <<mentorship, identity>>

\* accept: INSERT INTO connections (id, user_id, connected_user_id) with
\* (from_user_id, to_user_id) of the selected row.  It waits for an uncommitted
\* insert of the same key; a committed one is a unique violation.
AcceptInsert(p) ==
    LET u == proc[p].req_.from_user_id
        v == proc[p].req_.to_user_id
    IN  /\ At(p, "acc_insert")
        /\ ~PendingInsert(u, v, p)
        /\ IF ConnectionKeyTaken(connections, u, v)
           THEN Rollback(p, "duplicate key value violates unique constraint")
           ELSE Continue(p, [proc[p] EXCEPT !.pc = "acc_notify", !.connId = FreshConnId])
        /\ UNCHANGED <<db, ops, hist>>
        /\ UNCHANGED <<mentorship, identity>>

\* accept: INSERT INTO notifications ... 'connection_accepted' for the requester
AcceptNotify(p) ==
    /\ At(p, "acc_notify")
    /\ Goto(p, "acc_commit")
    /\ UNCHANGED <<db, ops, hist>>
    /\ UNCHANGED <<mentorship, identity>>

\* transaction(): COMMIT makes the three writes visible; then 200
AcceptCommit(p) ==
    LET id == proc[p].rid
        r  == proc[p].req_
    IN  /\ At(p, "acc_commit")
        /\ connection_requests' =
               {IF x.id = id THEN [x EXCEPT !.status = "accepted"] ELSE x :
                    x \in connection_requests}
        /\ connections' = connections \cup
               {[id |-> proc[p].connId, user_id |-> r.from_user_id,
                 connected_user_id |-> r.to_user_id]}
        /\ notifications' = Notify(notifications, r.from_user_id, "connection_accepted")
        /\ Done(p, Reply(200, "Request accepted"))
        /\ acceptOk' = acceptOk \cup
               {<<id, Cardinality({e \in acceptOk : e[1] = id}) + 1>>}
        /\ UNCHANGED <<ops, sendOk, rejectOk>>
        /\ UNCHANGED <<mentorship, identity>>

\* PUT /requests/:requestId/reject: one UPDATE ... RETURNING id.  On a row
\* locked by an open transaction it waits and re-checks the row afterwards.
RejectRequest(p) ==
    /\ Free(p)
    /\ \E a \in Users, id \in {r.id : r \in connection_requests} \cup {UnknownId} :
        LET rows == RejectMatch(connection_requests, id, a)
        IN  /\ Accepts(p, a)
            /\ rows # {} => ~Locked(id, p)
            /\ IF rows = {}
               THEN /\ Finish(p, Request("reject", a, Missing, id), SnapshotRequest(a, id),
                              Reply(404, "Request not found or already processed"))
                    /\ UNCHANGED <<connection_requests, rejectOk>>
               ELSE /\ connection_requests' =
                           {IF x \in rows THEN [x EXCEPT !.status = "rejected"] ELSE x :
                                x \in connection_requests}
                    /\ Finish(p, Request("reject", a, Missing, id), SnapshotRequest(a, id),
                              Reply(200, "Request rejected"))
                    /\ rejectOk' = rejectOk \cup {x.id : x \in rows}
            /\ UNCHANGED <<connections, notifications, sendOk, acceptOk>>
    /\ UNCHANGED <<mentorship, identity>>

\* DELETE /:connectionId (the parameter is the connected user's id)
RemoveConnection(p) ==
    /\ Free(p)
    /\ \E a \in Users, b \in Users :
        /\ Accepts(p, a)
        /\ connections' = connections \ DeleteMatch(connections, a, b)
        /\ Finish(p, Request("remove", a, b, UnknownId), Snapshot(a, b),
                  Reply(200, "Connection removed"))
        /\ UNCHANGED <<connection_requests, notifications, hist>>
    /\ UNCHANGED <<mentorship, identity>>

\* GET /check/:userId: "Check if connected"
CheckStatus(p) ==
    /\ Free(p)
    /\ \E a \in Users, b \in Users :
        /\ Accepts(p, a)
        /\ IF CheckConnection(connections, a, b) # {}
           THEN Finish(p, Request("check", a, b, UnknownId), NoPre, CheckReply(TRUE, ""))
           ELSE Continue(p, [Started("check", a, b, UnknownId, "chk_req") EXCEPT !.pre = NoPre])
        /\ UNCHANGED <<db, hist>>
    /\ UNCHANGED <<mentorship, identity>>

\* GET /check/:userId: "Check if request pending"; request.rows[0].status is
\* the status of whichever row the unordered SELECT returns first
CheckStatusRequest(p) ==
    LET rows == CheckRequest(connection_requests, proc[p].actor, proc[p].arg)
    IN  /\ At(p, "chk_req")
        /\ IF rows # {}
           THEN \E r \in rows : Done(p, CheckReply(FALSE, r.status))
           ELSE Done(p, CheckReply(FALSE, ""))
        /\ UNCHANGED <<db, ops, hist>>
        /\ UNCHANGED <<mentorship, identity>>

\* GET /suggestions: one SELECT, answered with the rows it returns
ListSuggestions(p) ==
    /\ Free(p)
    /\ \E a \in Accounts, limit \in Limits :
        /\ Accepts(p, a)
        /\ \E rows \in Limited(SuggestionMatches(connections, connection_requests, a), limit) :
               Finish(p, Request("suggestions", a, Missing, UnknownId), NoPre, ListReply(rows))
    /\ UNCHANGED <<db, hist>>
    /\ UNCHANGED <<mentorship, identity>>

\* ------------------------------------------------- mentorship handlers
\* What the committed tables held about the mentor and the caller when the
\* handler started (history, read by no handler).
MentorSnapshot(actor, mentorId) ==
    [NoMentorPre EXCEPT
        !.exists = ExistingMentorship(mentorship_requests, mentorId, actor) # {},
        !.active = ActiveMentor(mentors, mentorId) # {},
        !.own    = \E m \in mentors : m.id = mentorId /\ m.user_id = actor]

\* Whether the id named a pending request to a mentor profile of the caller
\* when the handler started (history, read by no handler).
MentorshipSnapshot(actor, id) ==
    [NoMentorPre EXCEPT
        !.actionable =
            \E r \in mentorship_requests, m \in mentors :
                /\ r.id = id
                /\ r.status = "pending"
                /\ m.id = r.mentor_id
                /\ m.user_id = actor]

MentorStarted(op, actor, mentorId, id, pc, row, pre) ==
    [pc |-> pc, op |-> op, actor |-> actor, arg |-> mentorId, rid |-> id,
     req_ |-> row, connId |-> 0, pre |-> pre]

\* POST /me/toggle-mentor: UPDATE users SET is_mentor = NOT is_mentor ... RETURNING *
ToggleMentor(p) ==
    /\ Free(p)
    /\ \E a \in Users :
        /\ Accepts(p, a)
        /\ is_mentor' = [is_mentor EXCEPT ![a] = ~@]
        /\ Continue(p, MentorStarted("toggle", a, Missing, UnknownId, "tog_profile",
                                     [id |-> a, is_mentor |-> ~is_mentor[a]], NoPre))
    /\ UNCHANGED <<mentors, mentorship_requests, mentorshipOk, notifications, social, identity>>

\* toggle-mentor: INSERT INTO mentors ... ON CONFLICT (user_id) DO UPDATE SET
\* is_active = true when the flag came back true, UPDATE mentors SET is_active =
\* false otherwise.  A write of an existing row waits for the row's lock.
ToggleMentorProfile(p) ==
    LET a    == proc[p].actor
        rows == {m \in mentors : m.user_id = a}
    IN  /\ At(p, "tog_profile")
        /\ \A m \in rows : ~MentorLocked(m.id, p)
        /\ mentors' = IF proc[p].req_.is_mentor
                      THEN ActivateProfile(mentors, a)
                      ELSE DeactivateProfile(mentors, a)
        /\ Done(p, Reply(200, "Mentor status updated"))
        /\ UNCHANGED <<is_mentor, mentorship_requests, mentorshipOk, notifications, ops, social, identity>>

\* PUT /me: the body fields the handler copies into its UPDATE users SET ...;
\* with is_mentor among them the flag is written as sent, and the mentors
\* table is not touched.
UpdateUser(p) ==
    /\ Free(p)
    /\ \E a \in Users, fields \in SUBSET {"name", "is_mentor"}, flag \in BOOLEAN :
        /\ Accepts(p, a)
        /\ IF fields = {}
           THEN /\ Finish(p, Request("update", a, Missing, UnknownId), NoPre,
                          Reply(400, "No fields to update"))
                /\ UNCHANGED is_mentor
           ELSE /\ is_mentor' = IF "is_mentor" \in fields
                                 THEN [is_mentor EXCEPT ![a] = flag]
                                 ELSE is_mentor
                /\ Finish(p, Request("update", a, Missing, UnknownId), NoPre, Reply(200, ""))
    /\ UNCHANGED <<mentors, mentorship_requests, mentorshipOk, notifications, social, identity>>

\* POST /:mentorId/request: "Check if already requested"
RequestMentorship(p) ==
    /\ Free(p)
    /\ \E a \in Users, mentorId \in {m.id : m \in mentors} \cup {UnknownMentor} :
        /\ Accepts(p, a)
        /\ IF ExistingMentorship(mentorship_requests, mentorId, a) # {}
           THEN Finish(p, Request("mrequest", a, mentorId, UnknownId),
                       MentorSnapshot(a, mentorId), Reply(400, "Request already sent"))
           ELSE Continue(p, MentorStarted("mrequest", a, mentorId, UnknownId, "mreq_mentor",
                                          NoRow, MentorSnapshot(a, mentorId)))
    /\ UNCHANGED <<mentorship, notifications, social, identity>>

\* request: "Check if mentor exists" and "Cannot request mentorship from yourself"
RequestMentorshipMentor(p) ==
    LET rows == ActiveMentor(mentors, proc[p].arg)
    IN  /\ At(p, "mreq_mentor")
        /\ IF rows = {}
           THEN Done(p, Reply(404, "Mentor not found"))
           ELSE \E m \in rows :
                    IF m.user_id = proc[p].actor
                    THEN Done(p, Reply(400, "Cannot request mentorship from yourself"))
                    ELSE Continue(p, [proc[p] EXCEPT !.pc = "mreq_insert", !.req_ = m])
        /\ UNCHANGED <<mentorship, notifications, ops, social, identity>>

\* request: INSERT INTO mentorship_requests ... 'pending'; a unique violation
\* throws into the handler's catch (500)
RequestMentorshipInsert(p) ==
    LET a        == proc[p].actor
        mentorId == proc[p].arg
    IN  /\ At(p, "mreq_insert")
        /\ IF MentorshipKeyTaken(mentorship_requests, mentorId, a)
           THEN /\ Done(p, Reply(500, "Failed to send request"))
                /\ UNCHANGED mentorship_requests
           ELSE /\ mentorship_requests' = mentorship_requests \cup
                       {[id |-> FreshMentorshipId, mentor_id |-> mentorId,
                         mentee_id |-> a, status |-> "pending"]}
                /\ Continue(p, [proc[p] EXCEPT !.pc = "mreq_notify",
                                               !.rid = FreshMentorshipId])
        /\ UNCHANGED <<is_mentor, mentors, mentorshipOk, notifications, ops, social, identity>>

\* request: INSERT INTO notifications ... 'mentorship_request' for
\* mentor.rows[0].user_id, then 200
RequestMentorshipNotify(p) ==
    /\ At(p, "mreq_notify")
    /\ notifications' = Notify(notifications, proc[p].req_.user_id, "mentorship_request")
    /\ Done(p, Reply(200, "Mentorship request sent"))
    /\ UNCHANGED <<mentorship, ops, social, identity>>

\* PUT /requests/:requestId/accept: BEGIN, the SELECT of the pending request
\* and the ownership check
AcceptMentorship(p) ==
    /\ Free(p)
    /\ \E a \in Users, id \in {r.id : r \in mentorship_requests} \cup {UnknownId} :
        LET rows == PendingMentorship(mentorship_requests, mentors, id)
            rq   == Request("maccept", a, Missing, id)
        IN  /\ Accepts(p, a)
            /\ IF rows = {}
               THEN Finish(p, rq, MentorshipSnapshot(a, id),
                           Reply(400, "Request not found or already processed"))
               ELSE \E r \in rows :
                        IF r.mentor_user_id # a
                        THEN Finish(p, rq, MentorshipSnapshot(a, id),
                                    Reply(400, "Not authorized"))
                        ELSE Continue(p, MentorStarted("maccept", a, Missing, id, "macc_update",
                                                       r, MentorshipSnapshot(a, id)))
    /\ UNCHANGED <<mentorship, notifications, social, identity>>

\* accept: UPDATE mentorship_requests SET status = 'accepted' WHERE id = $1.
\* It waits while another transaction holds the row's lock, then takes it.
AcceptMentorshipUpdate(p) ==
    /\ At(p, "macc_update")
    /\ ~MentorshipLocked(proc[p].rid, p)
    /\ Goto(p, "macc_count")
    /\ UNCHANGED <<mentorship, notifications, ops, social, identity>>

\* accept: UPDATE mentors SET mentees_count = mentees_count + 1 WHERE id = $1
AcceptMentorshipCount(p) ==
    /\ At(p, "macc_count")
    /\ ~MentorLocked(proc[p].req_.mentor_id, p)
    /\ Goto(p, "macc_notify")
    /\ UNCHANGED <<mentorship, notifications, ops, social, identity>>

\* accept: INSERT INTO notifications ... 'mentorship_accepted' for the mentee
AcceptMentorshipNotify(p) ==
    /\ At(p, "macc_notify")
    /\ Goto(p, "macc_commit")
    /\ UNCHANGED <<mentorship, notifications, ops, social, identity>>

\* transaction(): COMMIT makes the three writes visible; then 200
AcceptMentorshipCommit(p) ==
    LET id == proc[p].rid
        r  == proc[p].req_
    IN  /\ At(p, "macc_commit")
        /\ mentorship_requests' =
               {IF x.id = id THEN [x EXCEPT !.status = "accepted"] ELSE x :
                    x \in mentorship_requests}
        /\ mentors' =
               {IF m.id = r.mentor_id THEN [m EXCEPT !.mentees_count = @ + 1] ELSE m :
                    m \in mentors}
        /\ notifications' = Notify(notifications, r.mentee_id, "mentorship_accepted")
        /\ Done(p, Reply(200, "Request accepted"))
        /\ mentorshipOk' = mentorshipOk \cup
               {<<id, Cardinality({e \in mentorshipOk : e[1] = id}) + 1>>}
        /\ UNCHANGED <<is_mentor, ops, social, identity>>

\* PUT /requests/:requestId/reject: "Verify ownership"
RejectMentorship(p) ==
    /\ Free(p)
    /\ \E a \in Users, id \in {r.id : r \in mentorship_requests} \cup {UnknownId} :
        /\ Accepts(p, a)
        /\ IF OwnPendingMentorship(mentorship_requests, mentors, id, a) = {}
           THEN Finish(p, Request("mreject", a, Missing, id), MentorshipSnapshot(a, id),
                       Reply(404, "Request not found or already processed"))
           ELSE Continue(p, MentorStarted("mreject", a, Missing, id, "mrej_update",
                                          NoRow, MentorshipSnapshot(a, id)))
    /\ UNCHANGED <<mentorship, notifications, social, identity>>

\* reject: UPDATE mentorship_requests SET status = 'rejected' WHERE id = $1,
\* which waits for the row's lock; then 200
RejectMentorshipUpdate(p) ==
    /\ At(p, "mrej_update")
    /\ ~MentorshipLocked(proc[p].rid, p)
    /\ mentorship_requests' =
           {IF x.id = proc[p].rid THEN [x EXCEPT !.status = "rejected"] ELSE x :
                x \in mentorship_requests}
    /\ Done(p, Reply(200, "Request rejected"))
    /\ UNCHANGED <<is_mentor, mentors, mentorshipOk, notifications, ops, social, identity>>

\* GET /mentors: the COUNT(*) query; req.user is the row authenticate read
ListMentors(p) ==
    /\ Free(p)
    /\ \E a \in Accounts :
        /\ Accepts(p, a)
        /\ Continue(p, MentorStarted("mentors", a, Missing, UnknownId, "mlist_rows",
                                     [id |-> a, university_id |-> users[a].university_id],
                                     NoPre))
    /\ UNCHANGED <<mentorship, notifications, social, identity>>

\* GET /mentors: the page query (page_size 20 holds every row), then 200
ListMentorsRows(p) ==
    /\ At(p, "mlist_rows")
    /\ Done(p, ListReply({m.user_id :
                              m \in MentorMatches(mentors, is_mentor,
                                                  proc[p].req_.university_id)}))
    /\ UNCHANGED <<mentorship, notifications, ops, social, identity>>

\* ---------------------------------------------------- identity handlers
\* What a middleware returns when it calls next(); otherwise the detail of its 403.
Through == "next"

\* requireAdmin
RequireAdmin(user) ==
    IF user.role # "admin" /\ user.role # "superadmin"
    THEN "Admin access required"
    ELSE Through

\* requireSuperAdmin
RequireSuperAdmin(user) ==
    IF user.role # "superadmin" THEN "Super admin access required" ELSE Through

\* req.params.universityId || req.body.university_id
TargetUniversity(param, body) == IF param # Missing THEN param ELSE body

\* requireSameUniversity
RequireSameUniversity(user, target) ==
    IF user.role = "superadmin"
    THEN Through
    ELSE IF user.role = "admin" /\ target # Missing /\ user.university_id # target
    THEN "Access denied to this university"
    ELSE Through

\* The users rows a request can carry as req.user: a role with a university,
\* or with none (an alumnus registered without one, an admin created by the
\* superadmin through /admin/admins, the superadmin).
GateUsers ==
    {[role |-> r, university_id |-> u] :
        r \in {"alumni", "admin"}, u \in Universities \cup {Null}} \cup
    {[role |-> "superadmin", university_id |-> Null]}

\* The middleware runs on a request that has arrived or that the role
\* middleware before it has let through.  No route registers
\* requireSameUniversity; it is run here as exported, first in the chain or
\* behind a role middleware.
Gate(name, outcome) ==
    /\ gate.pc # "none"
    /\ gate.outcome = Through
    /\ gate.pc = "arrived" \/ (gate.pc # name /\ name = "requireSameUniversity")
    /\ gate' = [gate EXCEPT !.pc = name, !.outcome = outcome]
    /\ UNCHANGED <<social, mentorship, notifications, proc, response, ops,
                   users, universities, tx>>

ApplyRequireAdmin == Gate("requireAdmin", RequireAdmin(gate.user))
ApplyRequireSuperAdmin == Gate("requireSuperAdmin", RequireSuperAdmin(gate.user))
ApplyRequireSameUniversity ==
    Gate("requireSameUniversity",
         RequireSameUniversity(gate.user, TargetUniversity(gate.params, gate.body)))

\* UPDATE users SET is_active = false WHERE id = $1 AND university_id = $2 AND
\* role = 'alumni': the rows it matches.  A NULL university_id matches nothing.
DeactivateMatch(rows, userId, university) ==
    {u \in DOMAIN rows :
        /\ u = userId
        /\ university # Null
        /\ rows[u].university_id = university
        /\ rows[u].role = "alumni"}

\* DELETE /admin/users/:userId (authenticate, requireAdmin): the soft delete
DeactivateUser(p) ==
    /\ Free(p)
    /\ \E a \in DOMAIN users, userId \in DOMAIN users \cup {NoUser} :
        LET rq   == Request("deactivate", a, userId, UnknownId)
            rows == DeactivateMatch(users, userId, users[a].university_id)
        IN  /\ Accepts(p, a)
            /\ IF RequireAdmin(users[a]) # Through
               THEN /\ Finish(p, rq, NoPre, Reply(403, RequireAdmin(users[a])))
                    /\ UNCHANGED users
               ELSE IF rows = {}
               THEN /\ Finish(p, rq, NoPre, Reply(404, "User not found"))
                    /\ UNCHANGED users
               ELSE /\ users' = [u \in DOMAIN users |->
                                    IF u \in rows
                                    THEN [users[u] EXCEPT !.is_active = FALSE]
                                    ELSE users[u]]
                    /\ Finish(p, rq, NoPre, Reply(200, "User deactivated"))
    /\ UNCHANGED <<social, mentorship, notifications, universities, gate, tx>>

\* The users rows that registration and the admins' routes can add, each
\* named after the one email it is created with (users.email is UNIQUE).
Registrants == {"n1", "n2"}

\* users.email and the passwords, by users row.
Email ==
    [a \in Accounts \cup Registrants |->
        IF a = SuperAdmin THEN "superadmin@alumnihub.com"
        ELSE IF a = Admin THEN "admin@mit.edu"
        ELSE IF a = "u1" THEN "john.doe@mit.edu"
        ELSE IF a = "u2" THEN "sarah.chen@mit.edu"
        ELSE IF a = "u3" THEN "michael.smith@stanford.edu"
        ELSE IF a = "n1" THEN "new.grad@mit.edu"
        ELSE "new.dean@stanford.edu"]
Password ==
    [a \in Accounts \cup Registrants |->
        IF a = SuperAdmin THEN "super123"
        ELSE IF a = Admin THEN "mit123" ELSE "password123"]

\* bcrypt.hash(password, 10) and bcrypt.compare(password, hash)
BcryptHash(password) == <<"$2b$10$", password>>
BcryptCompare(password, hash) == hash = BcryptHash(password)

\* email.toLowerCase(), on the addresses a login is tried with
ToLowerCase(email) ==
    IF email = "John.Doe@MIT.edu" THEN "john.doe@mit.edu"
    ELSE IF email = "SuperAdmin@AlumniHub.com" THEN "superadmin@alumnihub.com"
    ELSE email

\* SELECT u.*, un.is_enabled FROM users u LEFT JOIN universities un
\* ON u.university_id = un.id WHERE u.email = $1 (users.email is UNIQUE)
LoginRows(rows, unis, email) ==
    {[id |-> a, role |-> rows[a].role, is_active |-> rows[a].is_active,
      university_id |-> rows[a].university_id,
      password_hash |-> BcryptHash(Password[a]),
      is_enabled |-> IF rows[a].university_id \in DOMAIN unis
                     THEN unis[rows[a].university_id].is_enabled
                     ELSE Null] :
        a \in {b \in DOMAIN rows : Email[b] = email}}

\* (the checks of the login route without the one on the university)
LoginRefusalByAccount(user, password) ==
    IF ~user.is_active
    THEN "Account is deactivated"
    ELSE IF ~BcryptCompare(password, user.password_hash)
    THEN "Invalid email or password"
    ELSE Through

\* The checks of the login route on the row found: the detail of its 401, or
\* Through when a token is to be issued.
LoginRefusal(user, password) ==
    IF ~user.is_active
    THEN "Account is deactivated"
    ELSE IF user.role # "superadmin" /\ user.university_id # Null
            /\ user.is_enabled = FALSE
    THEN "University is currently disabled"
    ELSE IF ~BcryptCompare(password, user.password_hash)
    THEN "Invalid email or password"
    ELSE Through

\* generateToken(user): the payload signed
GenerateToken(user) ==
    [userId |-> user.id, role |-> user.role, universityId |-> user.university_id]

\* res.json({access_token, token_type, user, university_branding, universities})
TokenReply(token, unis) ==
    [code |-> 200, detail |-> "", access_token |-> token, universities |-> unis]

\* POST /auth/login (validate(schemas.login)): the user query and the checks
\* on its row; a superadmin goes on to read the universities.  The bodies
\* are those the schema lets through: an address (a user's, in lower or mixed
\* case, or nobody's) and a non-empty password.
Login(p) ==
    /\ Free(p)
    /\ ops' = ops + 1
    /\ \E email \in {Email[a] : a \in Accounts} \cup
                     {"John.Doe@MIT.edu", "SuperAdmin@AlumniHub.com", "nobody@mit.edu"},
          password \in {Password[a] : a \in Accounts} \cup {"letmein"} :
        LET body == [email |-> email, password |-> password]
            rq   == Request("login", NoUser, body, UnknownId)
            rows == LoginRows(users, universities, ToLowerCase(email))
        IN  IF rows = {}
            THEN Finish(p, rq, NoPre, Reply(401, "Invalid email or password"))
            ELSE LET user    == CHOOSE r \in rows : TRUE
                     refusal == LoginRefusal(user, password)
                 IN  IF refusal # Through
                     THEN Finish(p, rq, NoPre, Reply(401, refusal))
                     ELSE IF user.role = "superadmin"
                     THEN Continue(p, [pc |-> "login_universities", op |-> "login",
                                       actor |-> NoUser, arg |-> body,
                                       rid |-> UnknownId, req_ |-> NoRow,
                                       connId |-> 0, pre |-> NoPre,
                                       token |-> GenerateToken(user)])
                     ELSE Finish(p, rq, NoPre, TokenReply(GenerateToken(user), Null))
    /\ UNCHANGED <<social, mentorship, notifications, identity>>

\* POST /auth/login of a superadmin: SELECT * FROM universities, mapped to
\* {id, is_enabled}, then the response
LoginUniversities(p) ==
    /\ At(p, "login_universities")
    /\ Done(p, TokenReply(proc[p].token,
                          {[id |-> u, is_enabled |-> universities[u].is_enabled] :
                              u \in DOMAIN universities}))
    /\ UNCHANGED <<social, mentorship, notifications, ops, identity>>

\* A university id the seed does not insert.
UnknownUniversity == "caltech"

\* POST /superadmin/universities/:universityId/toggle-status
\* (authenticate, requireSuperAdmin)
ToggleUniversityStatus(p) ==
    /\ Free(p)
    /\ \E a \in DOMAIN users, universityId \in Universities \cup {UnknownUniversity} :
        LET rq == Request("toggle_status", a, universityId, UnknownId)
        IN  /\ Accepts(p, a)
            /\ IF RequireSuperAdmin(users[a]) # Through
               THEN /\ UNCHANGED universities
                    /\ Finish(p, rq, NoPre, Reply(403, RequireSuperAdmin(users[a])))
               ELSE IF universityId \notin DOMAIN universities
               THEN /\ UNCHANGED universities
                    /\ Finish(p, rq, NoPre, Reply(404, "University not found"))
               ELSE /\ universities' =
                        [universities EXCEPT ![universityId].is_enabled = ~@]
                    /\ Finish(p, rq, NoPre, Reply(200, "University status toggled"))
    /\ UNCHANGED <<social, mentorship, notifications, users, gate, tx>>

\* -------------------------------------------------------- tenancy handlers
\* A handler past its first query, with the users row it is about to write.
Creating(op, actor, who, pc, university_id, role) ==
    [pc |-> pc, op |-> op, actor |-> actor, arg |-> who, rid |-> UnknownId,
     req_ |-> NoRow, connId |-> 0, pre |-> NoPre,
     university_id |-> university_id, role |-> role]

\* SELECT id FROM users WHERE email = $1
EmailRows(rows, who) == {a \in DOMAIN rows : Email[a] = Email[who]}

\* The INSERT INTO users (..., university_id, ..., role, is_active) VALUES
\* (..., true) of a handler (inside transaction() or on its own): the row
\* commits and the handler goes on, or UNIQUE (email) or the foreign key on
\* university_id refuses it and the catch block answers 500.
InsertStep(p, pc, next, failure) ==
    /\ At(p, pc)
    /\ IF \/ EmailRows(users, proc[p].arg) # {}
          \/ /\ proc[p].university_id # Null
             /\ proc[p].university_id \notin DOMAIN universities
       THEN /\ UNCHANGED users
            /\ Done(p, Reply(500, failure))
       ELSE /\ users' = [a \in DOMAIN users \cup {proc[p].arg} |->
                            IF a = proc[p].arg
                            THEN [university_id |-> proc[p].university_id,
                                  role |-> proc[p].role, is_active |-> TRUE]
                            ELSE users[a]]
            /\ Goto(p, next)
    /\ UNCHANGED <<social, mentorship, notifications, ops, universities, gate, tx>>

\* The last step of the four creating routes: the SELECT of the row created,
\* then 201
Created(p) ==
    /\ response = NoAnswer
    /\ proc[p].pc = "created"
    /\ Done(p, Reply(201, ""))
    /\ UNCHANGED <<social, mentorship, notifications, ops, identity>>

\* The bodies of POST /auth/register and of the admins' routes: an email
\* (new, or a seed user's) and a university_id (a row's, another, or none).
BodyEmails == Registrants \cup {"u1"}
BodyUniversities == Universities \cup {UnknownUniversity, Missing}

\* POST /auth/register, the email query onwards
RegisterEmailCheck(p, rq, university_id) ==
    IF EmailRows(users, rq.arg) # {}
    THEN Finish(p, rq, NoPre, Reply(400, "Email already registered"))
    ELSE Continue(p, Creating("register", NoUser, rq.arg, "register_insert",
                              IF university_id = Missing THEN Null ELSE university_id,
                              "alumni"))

\* POST /auth/register (validate(schemas.register)): the university query
\* (SELECT * FROM universities WHERE id = $1 AND is_enabled = true) when the
\* body has a university_id, the email query otherwise
Register(p) ==
    /\ Free(p)
    /\ ops' = ops + 1
    /\ \E who \in BodyEmails, university_id \in BodyUniversities :
        LET rq == Request("register", NoUser, who, UnknownId)
        IN  IF university_id # Missing
            THEN IF ~(/\ university_id \in DOMAIN universities
                      /\ universities[university_id].is_enabled)
                 THEN Finish(p, rq, NoPre, Reply(400, "Invalid or disabled university"))
                 ELSE Continue(p, Creating("register", NoUser, who, "register_email",
                                           university_id, "alumni"))
            ELSE RegisterEmailCheck(p, rq, university_id)
    /\ UNCHANGED <<social, mentorship, notifications, identity>>

RegisterEmail(p) ==
    /\ At(p, "register_email")
    /\ RegisterEmailCheck(p, proc[p], proc[p].university_id)
    /\ UNCHANGED <<social, mentorship, notifications, ops, identity>>

RegisterInsert(p) == InsertStep(p, "register_insert", "created", "Registration failed")

\* POST /admin/users (authenticate, requireAdmin): the email query; the row
\* takes the university_id of req.user
CreateUser(p) ==
    /\ Free(p)
    /\ \E a \in DOMAIN users, who \in BodyEmails :
        LET rq == Request("create_user", a, who, UnknownId)
        IN  /\ Accepts(p, a)
            /\ IF RequireAdmin(users[a]) # Through
               THEN Finish(p, rq, NoPre, Reply(403, RequireAdmin(users[a])))
               ELSE IF EmailRows(users, who) # {}
               THEN Finish(p, rq, NoPre, Reply(400, "Email already exists"))
               ELSE Continue(p, Creating("create_user", a, who, "create_user_insert",
                                         users[a].university_id, "alumni"))
    /\ UNCHANGED <<social, mentorship, notifications, identity>>

CreateUserInsert(p) ==
    InsertStep(p, "create_user_insert", "created", "Failed to create user")

\* POST /superadmin/admins (authenticate, requireSuperAdmin): the body check
\* and the email query
CreateAdmin(p) ==
    /\ Free(p)
    /\ \E a \in DOMAIN users, who \in BodyEmails, university_id \in BodyUniversities :
        LET rq == Request("create_admin", a, who, UnknownId)
        IN  /\ Accepts(p, a)
            /\ IF RequireSuperAdmin(users[a]) # Through
               THEN Finish(p, rq, NoPre, Reply(403, RequireSuperAdmin(users[a])))
               ELSE IF university_id = Missing
               THEN Finish(p, rq, NoPre,
                           Reply(400, "Email, password, name, and university_id are required"))
               ELSE IF EmailRows(users, who) # {}
               THEN Finish(p, rq, NoPre, Reply(400, "Email already exists"))
               ELSE Continue(p, Creating("create_admin", a, who, "create_admin_university",
                                         university_id, "admin"))
    /\ UNCHANGED <<social, mentorship, notifications, identity>>

\* POST /superadmin/admins: SELECT id FROM universities WHERE id = $1
CreateAdminUniversity(p) ==
    /\ At(p, "create_admin_university")
    /\ IF proc[p].university_id \notin DOMAIN universities
       THEN Done(p, Reply(400, "University not found"))
       ELSE Goto(p, "create_admin_insert")
    /\ UNCHANGED <<social, mentorship, notifications, ops, identity>>

CreateAdminInsert(p) ==
    InsertStep(p, "create_admin_insert", "created", "Failed to create admin")

\* PUT /superadmin/admins/:adminId (authenticate, requireSuperAdmin):
\* UPDATE users SET university_id = COALESCE($3, university_id)
\* WHERE id = $4 AND role = 'admin'
UpdateAdmin(p) ==
    /\ Free(p)
    /\ \E a \in DOMAIN users, adminId \in DOMAIN users \cup {NoUser},
          university_id \in BodyUniversities :
        LET rq == Request("update_admin", a, adminId, UnknownId)
        IN  /\ Accepts(p, a)
            /\ IF RequireSuperAdmin(users[a]) # Through
               THEN /\ UNCHANGED users
                    /\ Finish(p, rq, NoPre, Reply(403, RequireSuperAdmin(users[a])))
               ELSE IF adminId \notin DOMAIN users \/ users[adminId].role # "admin"
               THEN /\ UNCHANGED users
                    /\ Finish(p, rq, NoPre, Reply(404, "Admin not found"))
               ELSE IF university_id # Missing /\ university_id \notin DOMAIN universities
               THEN /\ UNCHANGED users
                    /\ Finish(p, rq, NoPre, Reply(500, "Failed to update admin"))
               ELSE /\ users' = [users EXCEPT ![adminId].university_id =
                                    IF university_id = Missing THEN @ ELSE university_id]
                    /\ Finish(p, rq, NoPre, Reply(200, ""))
    /\ UNCHANGED <<social, mentorship, notifications, universities, gate, tx>>

\* POST /superadmin/universities (authenticate, requireSuperAdmin): the id query
CreateUniversity(p) ==
    /\ Free(p)
    /\ \E a \in DOMAIN users, id \in Universities \cup {UnknownUniversity} :
        LET rq == Request("create_university", a, id, UnknownId)
        IN  /\ Accepts(p, a)
            /\ IF RequireSuperAdmin(users[a]) # Through
               THEN Finish(p, rq, NoPre, Reply(403, RequireSuperAdmin(users[a])))
               ELSE IF id \in DOMAIN universities
               THEN Finish(p, rq, NoPre, Reply(400, "University ID already exists"))
               ELSE Continue(p, Creating("create_university", a, id,
                                         "create_university_insert", Null, "none"))
    /\ UNCHANGED <<social, mentorship, notifications, identity>>

\* POST /superadmin/universities: the INSERT (is_enabled true), refused by the
\* primary key
CreateUniversityInsert(p) ==
    /\ At(p, "create_university_insert")
    /\ IF proc[p].arg \in DOMAIN universities
       THEN /\ UNCHANGED universities
            /\ Done(p, Reply(500, "Failed to create university"))
       ELSE /\ universities' =
                [u \in DOMAIN universities \cup {proc[p].arg} |->
                    IF u = proc[p].arg THEN [is_enabled |-> TRUE] ELSE universities[u]]
            /\ Goto(p, "created")
    /\ UNCHANGED <<social, mentorship, notifications, ops, users, gate, tx>>

\* DELETE /superadmin/universities/:universityId (authenticate,
\* requireSuperAdmin): SELECT COUNT(*) FROM users WHERE university_id = $1
DeleteUniversity(p) ==
    /\ Free(p)
    /\ \E a \in DOMAIN users, id \in Universities \cup {UnknownUniversity} :
        LET rq == Request("delete_university", a, id, UnknownId)
        IN  /\ Accepts(p, a)
            /\ IF RequireSuperAdmin(users[a]) # Through
               THEN Finish(p, rq, NoPre, Reply(403, RequireSuperAdmin(users[a])))
               ELSE IF \E u \in DOMAIN users : users[u].university_id = id
               THEN Finish(p, rq, NoPre,
                           Reply(400, "Cannot delete university with existing users"))
               ELSE Continue(p, Creating("delete_university", a, id,
                                         "delete_university_delete", Null, "none"))
    /\ UNCHANGED <<social, mentorship, notifications, identity>>

\* DELETE FROM universities WHERE id = $1 RETURNING id, with
\* users.university_id ... ON DELETE SET NULL
DeleteUniversityDelete(p) ==
    /\ At(p, "delete_university_delete")
    /\ IF proc[p].arg \notin DOMAIN universities
       THEN /\ UNCHANGED <<users, universities>>
            /\ Done(p, Reply(404, "University not found"))
       ELSE /\ universities' =
                [u \in DOMAIN universities \ {proc[p].arg} |-> universities[u]]
            /\ users' = [a \in DOMAIN users |->
                            IF users[a].university_id = proc[p].arg
                            THEN [users[a] EXCEPT !.university_id = Null]
                            ELSE users[a]]
            /\ Done(p, Reply(200, "University deleted"))
    /\ UNCHANGED <<social, mentorship, notifications, ops, gate, tx>>

\* --------------------------------------------------- transaction helper
\* The clients of the pool, and the statements of a callback: writes through
\* the client it is handed, and a statement that rejects (or a throw).
Clients == {"c1", "c2"}
Throw == "throw"
Callbacks ==
    {cb \in UNION {[1..n -> {"INSERT users", "INSERT user_profiles", Throw}] :
                      n \in 0..MaxStatements} :
        \A i \in 1..(Len(cb) - 1) : cb[i] # Throw}

\* client.query(sql) on the client: the statement reaches the server
Issue(t, sql) == [t EXCEPT !.log = Append(@, <<t.client, sql>>)]

\* (a ROLLBACK that would keep the writes of the transaction)
RollbackKeepingWrites(t) ==
    [Issue(t, "ROLLBACK") EXCEPT !.visible = @ \cup t.pending, !.pending = {},
                                 !.outcome = "thrown", !.pc = "release"]

\* catch: await client.query('ROLLBACK'); throw error
CatchRollback(t) ==
    [Issue(t, "ROLLBACK") EXCEPT !.pending = {}, !.outcome = "thrown", !.pc = "release"]

\* A step of the helper: only the call changes.
TxStep(t) ==
    /\ tx' = t
    /\ UNCHANGED <<social, mentorship, notifications, proc, response, ops,
                   users, universities, gate>>

\* const client = await pool.connect()
TxConnect ==
    /\ tx.pc = "connect"
    /\ \E c \in tx.idle :
        TxStep([tx EXCEPT !.client = c, !.idle = @ \ {c}, !.pc = "begin"])

\* await client.query('BEGIN')
TxBegin ==
    /\ tx.pc = "begin"
    /\ \E ok \in BOOLEAN :
        TxStep([Issue(tx, "BEGIN") EXCEPT !.pc = IF ok THEN "callback" ELSE "rollback"])

\* await callback(client): its next statement, or its throw
TxCallback ==
    /\ tx.pc = "callback"
    /\ tx.done < Len(tx.callback)
    /\ LET stmt == tx.callback[tx.done + 1]
       IN  IF stmt = Throw
           THEN TxStep([tx EXCEPT !.pc = "rollback"])
           ELSE TxStep([Issue(tx, stmt) EXCEPT !.pending = @ \cup {stmt},
                                               !.done = @ + 1])

\* await client.query('COMMIT'); return result
TxCommit ==
    /\ tx.pc = "callback"
    /\ tx.done = Len(tx.callback)
    /\ \E ok \in BOOLEAN :
        TxStep(IF ok
               THEN [Issue(tx, "COMMIT") EXCEPT !.visible = @ \cup tx.pending,
                                                !.pending = {},
                                                !.outcome = "returned",
                                                !.pc = "release"]
               ELSE [Issue(tx, "COMMIT") EXCEPT !.pc = "rollback"])

TxRollback ==
    /\ tx.pc = "rollback"
    /\ TxStep(CatchRollback(tx))

\* finally: client.release(); then the promise settles
TxRelease ==
    /\ tx.pc = "release"
    /\ TxStep([tx EXCEPT !.released = @ + 1, !.idle = @ \cup {tx.client},
                         !.pc = tx.outcome])

\* ------------------------------------------------------- specification
Seeded ==
    /\ connection_requests = {}
    /\ connections = {}
    /\ notifications = [k \in Users \X NotifTypes |-> 0]
    /\ proc = [p \in Procs |-> Idle]
    /\ response = NoAnswer
    /\ ops = 0
    /\ sendOk = {}
    /\ rejectOk = {}
    /\ acceptOk = {}
    /\ is_mentor = [u \in Users |-> u \in {"u1", "u3"}]
    /\ mentors = {[id |-> ProfileId[u], user_id |-> u, is_active |-> TRUE,
                   mentees_count |-> 0] : u \in {"u1", "u3"}}
    /\ mentorship_requests = {}
    /\ mentorshipOk = {}
    /\ users = SeedUsers
    /\ universities = [u \in Universities |-> [is_enabled |-> TRUE]]

Init ==
    /\ Seeded
    /\ gate = NoGate
    /\ tx = NoTx

\* res.json(...) / res.status(...).json(...): the response leaves the server
\* before the event loop runs the next continuation.
ResponseSent ==
    /\ response # NoAnswer
    /\ response' = NoAnswer
    /\ UNCHANGED <<db, proc, ops, hist>>
    /\ UNCHANGED <<mentorship, identity>>

Next ==
    \/ ResponseSent
    \/ \E p \in Procs : Unauthenticated(p)
    \/ \E p \in Procs : SendRequest(p)
    \/ \E p \in Procs : SendCheckRequest(p)
    \/ \E p \in Procs : SendInsert(p)
    \/ \E p \in Procs : SendNotify(p)
    \/ \E p \in Procs : AcceptRequest(p)
    \/ \E p \in Procs : AcceptUpdate(p)
    \/ \E p \in Procs : AcceptInsert(p)
    \/ \E p \in Procs : AcceptNotify(p)
    \/ \E p \in Procs : AcceptCommit(p)
    \/ \E p \in Procs : RejectRequest(p)
    \/ \E p \in Procs : RemoveConnection(p)
    \/ \E p \in Procs : CheckStatus(p)
    \/ \E p \in Procs : CheckStatusRequest(p)

Spec == Init /\ [][Next]_vars

\* The connections routes together with GET /suggestions.
NextSuggestions ==
    \/ Next
    \/ \E p \in Procs : ListSuggestions(p)

SpecSuggestions == Init /\ [][NextSuggestions]_vars

\* The connections routes served one request at a time: a request is
\* dispatched only once the previous one has been answered.
NextSequential ==
    \/ ResponseSent
    \/ Unauthenticated("w1")
    \/ SendRequest("w1")
    \/ SendCheckRequest("w1")
    \/ SendInsert("w1")
    \/ SendNotify("w1")
    \/ AcceptRequest("w1")
    \/ AcceptUpdate("w1")
    \/ AcceptInsert("w1")
    \/ AcceptNotify("w1")
    \/ AcceptCommit("w1")
    \/ RejectRequest("w1")
    \/ RemoveConnection("w1")
    \/ CheckStatus("w1")
    \/ CheckStatusRequest("w1")

SpecSequential == Init /\ [][NextSequential]_vars

\* The mentorship routes, toggle-mentor and the two directory reads.
NextMentorship ==
    \/ ResponseSent
    \/ \E p \in Procs : Unauthenticated(p)
    \/ \E p \in Procs : ToggleMentor(p)
    \/ \E p \in Procs : ToggleMentorProfile(p)
    \/ \E p \in Procs : RequestMentorship(p)
    \/ \E p \in Procs : RequestMentorshipMentor(p)
    \/ \E p \in Procs : RequestMentorshipInsert(p)
    \/ \E p \in Procs : RequestMentorshipNotify(p)
    \/ \E p \in Procs : AcceptMentorship(p)
    \/ \E p \in Procs : AcceptMentorshipUpdate(p)
    \/ \E p \in Procs : AcceptMentorshipCount(p)
    \/ \E p \in Procs : AcceptMentorshipNotify(p)
    \/ \E p \in Procs : AcceptMentorshipCommit(p)
    \/ \E p \in Procs : RejectMentorship(p)
    \/ \E p \in Procs : RejectMentorshipUpdate(p)
    \/ \E p \in Procs : ListMentors(p)
    \/ \E p \in Procs : ListMentorsRows(p)
    \/ \E p \in Procs : ListSuggestions(p)

SpecMentorship == Init /\ [][NextMentorship]_vars

\* The routes that write users.is_mentor and the mentors profile, with
\* requestMentorship, which reads the profile.
NextMentorFlag ==
    \/ ResponseSent
    \/ \E p \in Procs : Unauthenticated(p)
    \/ \E p \in Procs : ToggleMentor(p)
    \/ \E p \in Procs : ToggleMentorProfile(p)
    \/ \E p \in Procs : UpdateUser(p)
    \/ \E p \in Procs : RequestMentorship(p)
    \/ \E p \in Procs : RequestMentorshipMentor(p)
    \/ \E p \in Procs : RequestMentorshipInsert(p)
    \/ \E p \in Procs : RequestMentorshipNotify(p)

SpecMentorFlag == Init /\ [][NextMentorFlag]_vars

\* The routes a user's token opens, with the admin's soft delete of a user.
NextDeactivation ==
    \/ ResponseSent
    \/ \E p \in Procs : Unauthenticated(p)
    \/ \E p \in Procs : DeactivateUser(p)
    \/ \E p \in Procs : SendRequest(p)
    \/ \E p \in Procs : SendCheckRequest(p)
    \/ \E p \in Procs : SendInsert(p)
    \/ \E p \in Procs : SendNotify(p)
    \/ \E p \in Procs : AcceptRequest(p)
    \/ \E p \in Procs : AcceptUpdate(p)
    \/ \E p \in Procs : AcceptInsert(p)
    \/ \E p \in Procs : AcceptNotify(p)
    \/ \E p \in Procs : AcceptCommit(p)
    \/ \E p \in Procs : RejectRequest(p)
    \/ \E p \in Procs : RemoveConnection(p)
    \/ \E p \in Procs : ToggleMentor(p)
    \/ \E p \in Procs : ToggleMentorProfile(p)
    \/ \E p \in Procs : RequestMentorship(p)
    \/ \E p \in Procs : RequestMentorshipMentor(p)
    \/ \E p \in Procs : RequestMentorshipInsert(p)
    \/ \E p \in Procs : RequestMentorshipNotify(p)

SpecDeactivation == Init /\ [][NextDeactivation]_vars

\* Logins beside the two routes that change what a login reads: the
\* superadmin's toggle of a university and the admin's soft delete of a user.
NextLogin ==
    \/ ResponseSent
    \/ \E p \in Procs : Unauthenticated(p)
    \/ \E p \in Procs : Login(p)
    \/ \E p \in Procs : LoginUniversities(p)
    \/ \E p \in Procs : ToggleUniversityStatus(p)
    \/ \E p \in Procs : DeactivateUser(p)

SpecLogin == Init /\ [][NextLogin]_vars

\* The routes that write users.university_id or remove a university.
NextTenancy ==
    \/ ResponseSent
    \/ \E p \in Procs : Unauthenticated(p)
    \/ \E p \in Procs : Register(p)
    \/ \E p \in Procs : RegisterEmail(p)
    \/ \E p \in Procs : RegisterInsert(p)
    \/ \E p \in Procs : CreateUser(p)
    \/ \E p \in Procs : CreateUserInsert(p)
    \/ \E p \in Procs : CreateAdmin(p)
    \/ \E p \in Procs : CreateAdminUniversity(p)
    \/ \E p \in Procs : CreateAdminInsert(p)
    \/ \E p \in Procs : UpdateAdmin(p)
    \/ \E p \in Procs : CreateUniversity(p)
    \/ \E p \in Procs : CreateUniversityInsert(p)
    \/ \E p \in Procs : DeleteUniversity(p)
    \/ \E p \in Procs : DeleteUniversityDelete(p)
    \/ \E p \in Procs : Created(p)

SpecTenancy == Init /\ [][NextTenancy]_vars

\* One call of the transaction helper, for every callback: nothing issued
\* yet, every client idle in the pool, none of the callback's rows in the
\* tables.
InitTransaction ==
    /\ Seeded
    /\ gate = NoGate
    /\ \E callback \in Callbacks :
        tx = [pc |-> "connect", callback |-> callback, client |-> Null,
              idle |-> Clients, log |-> <<>>, done |-> 0, pending |-> {},
              visible |-> {}, released |-> 0, outcome |-> "none"]

NextTransaction ==
    \/ TxConnect
    \/ TxBegin
    \/ TxCallback
    \/ TxCommit
    \/ TxRollback
    \/ TxRelease

SpecTransaction == InitTransaction /\ [][NextTransaction]_vars

\* The three role and tenant middlewares, applied to every req.user and
\* target university.
InitGate ==
    /\ Seeded
    /\ tx = NoTx
    /\ \E user \in GateUsers, param \in Universities \cup {Missing},
          body \in Universities \cup {Missing} :
           gate = [pc |-> "arrived", user |-> user, params |-> param,
                   body |-> body, outcome |-> Through]

NextGate ==
    \/ ApplyRequireAdmin
    \/ ApplyRequireSuperAdmin
    \/ ApplyRequireSameUniversity

SpecGate == InitGate /\ [][NextGate]_vars

\* =================================================================== claims
NotFoundMsg == "Request not found or already processed"
ConflictMsgs == {"Already connected", "Request already exists"}
PendingBetween(a, b) ==
    {r \in PairRequests(connection_requests, a, b) : r.status = "pending"}
AcceptedCalls(id) == Cardinality({e \in acceptOk : e[1] = id})
RequestById(id) == CHOOSE r \in connection_requests : r.id = id

\* C1: accept is single-fire: of the acceptRequest calls made by the recipient
\* of a request while it is pending, at most one answers success, and every
\* other one is answered 'Request not found or already processed'.
C1_AcceptSingleFire ==
    /\ \A r \in connection_requests : AcceptedCalls(r.id) <= 1
    /\ (response.op = "accept" /\ response.pre.actionable /\ response.res.code # 200)
           => response.res.detail = NotFoundMsg

\* C2: at most one connections row exists for any unordered pair of users,
\* rows (A,B) and (B,A) counted together.
C2_OneRowPerPair ==
    \A a \in Users, b \in Users : Cardinality(PairRows(connections, a, b)) <= 1

\* C3: no two pending connection requests exist between the same unordered
\* pair of users.
C3_OnePendingPerPair ==
    \A a \in Users, b \in Users : Cardinality(PendingBetween(a, b)) <= 1

\* C4: a sendRequest that starts while a request between the two users, made
\* by a sendRequest that succeeded, is pending never gets past its checks: it
\* is answered 400 with a conflict message, and its step writes no request row
\* and no notification and leaves the pending request as it is.
C4_LaterSendConflicts ==
    [][/\ \A p \in Procs :
             (proc'[p].op = "send" /\ proc'[p].pre.pending) => proc'[p].pc = "send_req"
       /\ (response'.op = "send" /\ response'.pre.pending)
             => /\ response'.res.code = 400
                /\ response'.res.detail \in ConflictMsgs
                /\ UNCHANGED <<connection_requests, notifications>>]_vars

C4_Witness ==
    /\ response.op = "send"
    /\ response.pre.pending
    /\ response.res.detail = "Request already exists"
    /\ \E r \in PendingBetween(response.actor, response.arg) :
           r.from_user_id = response.arg

\* C5: accepted and rejected are terminal: a request row whose status is
\* accepted or rejected is the same row after every step.
C5_TerminalStatus ==
    [][\A r \in connection_requests :
           r.status # "pending" => r \in connection_requests']_vars

\* C6: acceptRequest and rejectRequest succeed only on a request that, when the
\* call started, existed, was pending and was addressed to the caller; any
\* other call is answered with a failure by its first statement, and that step
\* leaves requests, connections and notifications unchanged.
C6_OnlyRecipientOfPending ==
    [][/\ \A p \in Procs : proc'[p].op = "accept" => proc'[p].pre.actionable
       /\ (response'.op \in {"accept", "reject"} /\ ~response'.pre.actionable)
             => /\ response'.res.code \in {400, 404}
                /\ response'.res.detail = NotFoundMsg
                /\ UNCHANGED db]_vars

C6_Witness ==
    /\ response.op = "accept"
    /\ ~response.pre.actionable
    /\ response.res.code = 400
    /\ \E r \in connection_requests :
           /\ r.id = response.rid
           /\ r.to_user_id = response.actor
           /\ r.status = "accepted"

\* C7: when A's sendRequest to B has succeeded and B's acceptRequest of that
\* request succeeds, checkStatus(A,B) and checkStatus(B,A) both answer
\* connected, exactly one connections row represents the pair, and A has a
\* connection_accepted notification.
C7_AcceptedMeansConnectedOnce ==
    (response.op = "accept" /\ response.res.code = 200 /\ response.rid \in sendOk) =>
        LET r == RequestById(response.rid)
            A == r.from_user_id
            B == r.to_user_id
        IN  /\ CheckStatusReplies(connections, connection_requests, A, B) = {CheckReply(TRUE, "")}
            /\ CheckStatusReplies(connections, connection_requests, B, A) = {CheckReply(TRUE, "")}
            /\ Cardinality(PairRows(connections, A, B)) = 1
            /\ notifications[<<A, "connection_accepted">>] >= 1

\* C8: a checkStatus that does not answer connected answers pending iff a
\* pending request exists between the two users, and otherwise none (no
\* request_status): its answer is one of connected, pending, none.
C8_CheckStatusValues ==
    [][(response'.op = "check" /\ ~response'.res.is_connected) =>
           response'.res.request_status =
               IF PendingBetween(response'.actor, response'.arg) # {}
               THEN "pending" ELSE ""]_vars

\* C9: a sendRequest between two users that starts after a rejectRequest on a
\* request between them has succeeded is answered 400 'Request already exists'.
C9_RejectedBlocksResend ==
    (response.op = "send" /\ response.pre.rejected) =>
        /\ response.res.code = 400
        /\ response.res.detail = "Request already exists"

\* C10: removeConnection(actor, other) answers success, leaves no connections
\* row between the two in either direction, removes nothing else (nothing at
\* all when they were not connected) and changes no connection request.
C10_RemoveConnection ==
    [][response'.op = "remove" =>
           /\ response'.res.code = 200
           /\ PairRows(connections', response'.actor, response'.arg) = {}
           /\ connections' = connections \ PairRows(connections, response'.actor, response'.arg)
           /\ UNCHANGED connection_requests]_vars

C10_Witness ==
    /\ response.op = "remove"
    /\ response.pre.connected
    /\ response.res.code = 200
    /\ PairRows(connections, response.actor, response.arg) = {}
    /\ \E r \in connection_requests :
           /\ r.status = "accepted"
           /\ r.from_user_id = response.arg
           /\ r.to_user_id = response.actor

\* C15: the users listSuggestions returns to a caller never include the caller,
\* a user connected with the caller in either direction, or a user the caller
\* has a pending request to, whatever requests were served before.
C15_SuggestionsExclude ==
    response.op = "suggestions" =>
        \A u \in response.res.rows :
            /\ u # response.actor
            /\ PairRows(connections, response.actor, u) = {}
            /\ ~\E r \in connection_requests :
                   /\ r.from_user_id = response.actor
                   /\ r.to_user_id = u
                   /\ r.status = "pending"

\* listSuggestions answered a caller who has a pending request to an alumnus
\* of the caller's university, and another time one who is connected to one.
C15_Witness ==
    /\ response.op = "suggestions"
    /\ \E u \in Users \ {response.actor} :
           /\ users[u].university_id = users[response.actor].university_id
           /\ u \in PendingTo(connection_requests, response.actor)
           /\ u \notin ConnectedWith(connections, response.actor)

\* -------------------------------------------------------- mentorship claims
SelfConnectMsg == "Cannot connect to yourself"
SelfMentorMsg == "Cannot request mentorship from yourself"
MentorshipConflictMsg == "Request already sent"
MentorNotFoundMsg == "Mentor not found"
AcceptedMentorshipCalls(id) == Cardinality({e \in mentorshipOk : e[1] = id})
MentorOf(r) == CHOOSE m \in mentors : m.id = r.mentor_id

\* C11: a sendRequest to oneself and a requestMentorship to one's own mentor
\* profile are both answered with the invalid-operation failure (400 and the
\* "yourself" message), never get as far as their INSERT, and the step that
\* answers leaves the requests and the notifications unchanged.
C11_SelfOperationsRejected ==
    [][/\ \A p \in Procs :
              /\ (proc'[p].op = "send" /\ proc'[p].arg = proc'[p].actor) => FALSE
              /\ (proc'[p].op = "mrequest" /\ proc'[p].pre.own) => proc'[p].pc = "mreq_mentor"
       /\ (response'.op = "send" /\ response'.arg = response'.actor)
              => /\ response'.res.code = 400
                 /\ response'.res.detail = SelfConnectMsg
                 /\ UNCHANGED <<connection_requests, notifications>>
       /\ (response'.op = "mrequest" /\ response'.pre.own)
              => /\ response'.res.code = 400
                 /\ response'.res.detail = SelfMentorMsg
                 /\ UNCHANGED <<mentorship_requests, notifications>>]_vars

\* C12: of the acceptMentorship calls made on one request, at most one answers
\* success, and an accept by the mentor's user that starts on a request that is
\* no longer pending is answered 'Request not found or already processed' and
\* changes nothing.
C12_AcceptMentorshipSingleFire ==
    [][/\ \A r \in mentorship_requests' : AcceptedMentorshipCalls(r.id)' <= 1
       /\ (/\ response'.op = "maccept"
           /\ ~response'.pre.actionable
           /\ \E r \in mentorship_requests :
                  r.id = response'.rid /\ MentorOf(r).user_id = response'.actor)
              => /\ response'.res.code = 400
                 /\ response'.res.detail = NotFoundMsg
                 /\ UNCHANGED <<mentorship, notifications>>]_vars

\* C13: the mentees_count of every mentor equals the number of its requests
\* that an acceptMentorship has accepted, and a rejectMentorship leaves every
\* mentees_count as it was.
C13_MenteesCount ==
    [][/\ \A m \in mentors' :
              m.mentees_count =
                  Cardinality({r \in mentorship_requests' :
                                  r.mentor_id = m.id /\ AcceptedMentorshipCalls(r.id)' >= 1})
       /\ response'.op = "mreject" =>
              {<<m.id, m.mentees_count>> : m \in mentors'} =
              {<<m.id, m.mentees_count>> : m \in mentors}]_vars

C16_RequestMentorshipOutcomes ==
    [][response'.op = "mrequest" =>
           LET rows == ExistingMentorship(mentorship_requests', response'.arg, response'.actor)
           IN  /\ response'.pre.exists
                     => response'.res.code = 400 /\ response'.res.detail = MentorshipConflictMsg
               /\ response'.res.code # 200
                     => /\ response'.res.detail \in
                               {MentorshipConflictMsg, MentorNotFoundMsg, SelfMentorMsg}
                        /\ response'.res.detail = MentorNotFoundMsg
                               => ActiveMentor(mentors, response'.arg) = {}
                        /\ UNCHANGED <<mentorship_requests, notifications>>
               /\ response'.res.code = 200
                     => /\ Cardinality(rows) = 1
                        /\ \A r \in rows : r.id = response'.rid
                        /\ \E m \in mentors :
                               /\ m.id = response'.arg
                               /\ notifications' =
                                      Notify(notifications, m.user_id, "mentorship_request")]_vars

\* C17: at most one mentorship_requests row exists for a mentor and a mentee,
\* and no row has the user of its mentor profile as its mentee.
C17_OneMentorshipPerPair ==
    /\ \A r \in mentorship_requests :
           Cardinality(ExistingMentorship(mentorship_requests, r.mentor_id, r.mentee_id)) = 1
    /\ \A r \in mentorship_requests : MentorOf(r).user_id # r.mentee_id

\* Two requestMentorship calls of one mentee to one mentor ran concurrently:
\* the INSERT of the second was refused by the constraint.
C17_Witness ==
    /\ response.op = "mrequest"
    /\ response.res.code = 500
    /\ ExistingMentorship(mentorship_requests, response.arg, response.actor) # {}

\* C18: acceptMentorship and rejectMentorship go past their first statement
\* only on a request that, when the call started, was pending and belonged to a
\* mentor profile of the caller; any other call is answered with a failure by
\* that statement, and the step leaves the request statuses, every
\* mentees_count and the notifications unchanged.
C18_OnlyMentorOfPending ==
    [][/\ \A p \in Procs :
              proc'[p].op \in {"maccept", "mreject"} => proc'[p].pre.actionable
       /\ (response'.op \in {"maccept", "mreject"} /\ ~response'.pre.actionable)
              => /\ response'.res.code \in {400, 404}
                 /\ UNCHANGED <<mentorship_requests, mentors, notifications>>]_vars

\* A rejectMentorship by a user who is not the mentor's user, on a pending
\* request, was answered with the failure.
C18_Witness ==
    /\ response.op = "mreject"
    /\ ~response.pre.actionable
    /\ response.res.code = 404
    /\ \E r \in mentorship_requests :
           /\ r.id = response.rid
           /\ r.status = "pending"
           /\ MentorOf(r).user_id # response.actor

\* A step of a toggleMentor call.
ToggleStep ==
    \E p \in Procs :
        /\ proc'[p] # proc[p]
        /\ proc[p].op = "toggle" \/ proc'[p].op = "toggle"

\* C19: toggleMentor negates the caller's is_mentor; no user ever has more than
\* one mentors row; and no step of a toggle, enabling or disabling, changes a
\* mentorship request or the id, user or mentees_count of a mentors row.
C19_ToggleMentor ==
    [][/\ \A u \in Users : Cardinality({m \in mentors' : m.user_id = u}) <= 1
       /\ \A p \in Procs :
              (proc[p].pc = "idle" /\ proc'[p].op = "toggle")
                  => is_mentor'[proc'[p].actor] = ~is_mentor[proc'[p].actor]
       /\ ToggleStep =>
              /\ mentorship_requests' = mentorship_requests
              /\ \A m \in mentors :
                     \E n \in mentors' :
                         /\ n.id = m.id
                         /\ n.user_id = m.user_id
                         /\ n.mentees_count = m.mentees_count]_vars

\* A toggleMentor re-enabled a profile that has an accepted mentee.
C19_Witness ==
    /\ response.op = "toggle"
    /\ is_mentor[response.actor]
    /\ \E m \in mentors :
           /\ m.user_id = response.actor
           /\ m.is_active
           /\ m.mentees_count >= 1
           /\ \E r \in mentorship_requests : r.mentor_id = m.id /\ r.status = "accepted"

\* C20: the writes of one operation are visible together or not at all: every
\* connection request has the connection_request notification of its
\* recipient, every mentorship request has the mentorship_request
\* notification of its mentor's user, and is_mentor is set exactly for the
\* users with an active mentor profile.
C20_AllOrNothing ==
    /\ \A u \in Users :
           Cardinality({r \in connection_requests : r.to_user_id = u})
               <= notifications[<<u, "connection_request">>]
    /\ \A u \in Users :
           Cardinality({r \in mentorship_requests : MentorOf(r).user_id = u})
               <= Notified(notifications, u, "mentorship_request")
    /\ \A u \in Users :
           is_mentor[u] <=> \E m \in mentors : m.user_id = u /\ m.is_active

\* ------------------------------------------------------ cross-cutting claims
SameUniversity(a, b) ==
    /\ users[a].university_id # Null
    /\ users[a].university_id = users[b].university_id

\* C24: whenever a connections row exists between two users, no pending
\* connection request exists between them, in either direction.
C24_ConnectedMeansNoPending ==
    \A a \in Users, b \in Users :
        PairRows(connections, a, b) # {} => PendingBetween(a, b) = {}

\* C27: the mentees_count of every mentor equals the number of its mentorship
\* requests whose status is accepted, whatever accepts and rejects ran and
\* however they interleaved.
C27_CountMatchesAccepted ==
    \A m \in mentors :
        m.mentees_count =
            Cardinality({r \in mentorship_requests :
                            r.mentor_id = m.id /\ r.status = "accepted"})

\* C29: every connection request, every connection and every mentorship
\* request links two users of one university.
C29_SameTenantRelationships ==
    /\ \A r \in connection_requests : SameUniversity(r.from_user_id, r.to_user_id)
    /\ \A c \in connections : SameUniversity(c.user_id, c.connected_user_id)
    /\ \A r \in mentorship_requests : SameUniversity(r.mentee_id, MentorOf(r).user_id)

\* A removeConnection between a and b has just answered, and they were
\* connected when it started.
Removed(a, b) ==
    /\ response.op = "remove"
    /\ response.pre.connected
    /\ {response.actor, response.arg} = {a, b}

\* C30: with requests served one at a time, at most one acceptRequest ever
\* succeeds between a pair of users, and once a removeConnection has removed
\* the connection of a pair the two are never connected again and every later
\* sendRequest between them, in either direction, is answered 400 'Request
\* already exists'.
C30_RemovedPairStaysApart ==
    /\ [](\A a \in Users, b \in Users :
             Cardinality({e \in acceptOk :
                            RequestById(e[1]) \in PairRequests(connection_requests, a, b)}) <= 1)
    /\ \A a \in Users, b \in Users :
           [](Removed(a, b) =>
                [](/\ PairRows(connections, a, b) = {}
                   /\ (response.op = "send" /\ {response.actor, response.arg} = {a, b})
                          => /\ response.res.code = 400
                             /\ response.res.detail = "Request already exists"))

\* A sendRequest by the recipient of an accepted request, made after the
\* connection was removed, was answered 'Request already exists'.
C30_Witness ==
    /\ response.op = "send"
    /\ response.res.detail = "Request already exists"
    /\ PairRows(connections, response.actor, response.arg) = {}
    /\ \E r \in connection_requests :
           /\ r.status = "accepted"
           /\ r.from_user_id = response.arg
           /\ r.to_user_id = response.actor
           /\ AcceptedCalls(r.id) = 1

\* No request is being served.
Quiescent == \A p \in Procs : proc[p].pc = "idle"

\* C28: whenever no toggleMentor or updateUser call is in progress, is_mentor
\* is true exactly for the users that have an active mentor profile; and a
\* requestMentorship that answers success was made to a mentor whose user has
\* is_mentor = true.
C28_FlagMatchesProfile ==
    /\ Quiescent =>
           \A u \in Users :
               is_mentor[u] <=> \E m \in mentors : m.user_id = u /\ m.is_active
    /\ (response.op = "mrequest" /\ response.res.code = 200) =>
           \E m \in mentors : m.id = response.arg /\ is_mentor[m.user_id]

\* C26: a request that arrives with the token of a user whose is_active is
\* false starts no handler: it is answered 401 and its step changes no table;
\* and the step that deactivates a user changes no connection, no connection
\* request, no mentorship request and no mentor profile.
C26_DeactivatedIsRefused ==
    [][/\ ops' = ops + 1 =>
              /\ \A p \in Procs :
                     (proc'[p] # proc[p] /\ proc'[p].pc # "idle")
                         => users[proc'[p].actor].is_active
              /\ (/\ response' # NoAnswer
                  /\ response'.actor \in DOMAIN users
                  /\ ~users[response'.actor].is_active)
                     => /\ response'.res.code = 401
                        /\ UNCHANGED <<db, mentorship>>
       /\ response'.op = "deactivate" =>
              UNCHANGED <<connection_requests, connections, mentorship_requests,
                          mentors, notifications>>]_vars

\* A user who had sent a connection request was deactivated, the request is
\* still there, and a later request with the user's token was answered 401.
C26_Witness ==
    /\ response.op = "none"
    /\ response.res.code = 401
    /\ response.actor \in DOMAIN users
    /\ ~users[response.actor].is_active
    /\ \E r \in connection_requests : r.from_user_id = response.actor

\* canAccessTenant of the specification, for a request that names a target
\* university: the resource is the caller's own when the target is the
\* caller's university.
CanAccessTenant(user, target) ==
    \/ user.role = "superadmin"
    \/ user.role = "admin" /\ user.university_id = target
    \/ user.university_id = target

\* C22: requireSameUniversity lets a request that names a target university
\* through iff the caller is a superadmin, or an admin of that university, or
\* the university is the caller's own; every other caller gets its 403.
C22_TenantPredicate ==
    gate.pc = "requireSameUniversity" =>
        LET target == IF gate.params # Missing THEN gate.params ELSE gate.body
        IN  target # Missing =>
                (gate.outcome = Through <=> CanAccessTenant(gate.user, target))
\* The account a login body names: the users row whose email is the body's
\* address in lower case, if its password is the body's.
Credentialed(body) ==
    {a \in DOMAIN users :
        /\ Email[a] = ToLowerCase(body.email)
        /\ Password[a] = body.password}

\* The login must be refused: no account has these credentials, or the
\* account is inactive, or it is not a superadmin's and its university is
\* disabled.
MustRefuseLogin(body) ==
    \/ Credentialed(body) = {}
    \/ \E a \in Credentialed(body) :
        \/ ~users[a].is_active
        \/ /\ users[a].role # "superadmin"
           /\ users[a].university_id \in DOMAIN universities
           /\ ~universities[users[a].university_id].is_enabled

\* C21: a login is answered 401 without a token whenever its credentials are
\* invalid, its account is inactive, or its account is not a superadmin's and
\* its university is disabled; an active superadmin with valid credentials is
\* given a token whatever the universities' is_enabled flags are.
C21_LoginRefusals ==
    [][(response'.op = "login" /\ response' # NoAnswer) =>
          LET body == response'.arg
              res  == response'.res
          IN  /\ MustRefuseLogin(body) =>
                    (res.code = 401 /\ "access_token" \notin DOMAIN res)
              /\ (\E a \in Credentialed(body) :
                      users[a].role = "superadmin" /\ users[a].is_active) =>
                    (res.code = 200 /\ "access_token" \in DOMAIN res)]_vars

\* An active alumnus with valid credentials is refused because the
\* university is disabled.
C21_Witness ==
    /\ response.op = "login"
    /\ response.res.code = 401
    /\ response.res.detail = "University is currently disabled"
    /\ \E a \in Credentialed(response.arg) : users[a].is_active

\* C23: every users row with role alumni or admin has a university_id that
\* is not NULL; only a superadmin's may be NULL.
C23_MembersHaveUniversity ==
    \A a \in DOMAIN users :
        users[a].role \in {"alumni", "admin"} => users[a].university_id # Null

\* The writes of a callback, in order, and whether it throws.
CallbackWrites(cb) == SelectSeq(cb, LAMBDA stmt : stmt # Throw)
CallbackThrows(cb) == \E i \in 1..Len(cb) : cb[i] = Throw
SqlOf(log) == [i \in 1..Len(log) |-> log[i][2]]

\* C25: the helper issues every statement on the one client it took from the
\* pool; when it returns, the log is BEGIN, the callback's writes, COMMIT and
\* all the writes are visible; when the callback throws, the helper throws,
\* its last statement is ROLLBACK and none of the writes is visible; the
\* client is released once, when the helper settles, and never before.
C25_TransactionHelper ==
    tx.pc # "none" =>
        /\ \A i \in 1..Len(tx.log) : tx.log[i][1] = tx.client
        /\ tx.released = IF tx.pc \in {"returned", "thrown"} THEN 1 ELSE 0
        /\ tx.pc \in {"returned", "thrown"} => tx.idle = Clients
        /\ tx.pc \notin {"connect", "returned", "thrown"} => tx.client \notin tx.idle
        /\ tx.pc = "returned" =>
            /\ SqlOf(tx.log) = <<"BEGIN">> \o CallbackWrites(tx.callback) \o <<"COMMIT">>
            /\ tx.visible = {tx.callback[i] : i \in 1..Len(tx.callback)}
        /\ (tx.pc \in {"returned", "thrown"} /\ CallbackThrows(tx.callback)
                /\ tx.done = Len(tx.callback) - 1) =>
            /\ tx.pc = "thrown"
            /\ SqlOf(tx.log)[Len(tx.log)] = "ROLLBACK"
            /\ SqlOf(tx.log)[1] = "BEGIN"
            /\ tx.visible = {}
        /\ tx.pc = "thrown" => tx.visible = {}

\* A callback that threw after a write has been rolled back and the helper
\* has thrown.
C25_Witness ==
    /\ tx.pc = "thrown"
    /\ CallbackThrows(tx.callback)
    /\ tx.done >= 1
    /\ tx.done = Len(tx.callback) - 1

====
